---- MODULE Spec2Model ----
(***************************************************************************)
(* hammy: batch upload of images to hamster.is.                            *)
(* A model of src/hammy/__main__.py: main's batch loop, upload_image,      *)
(* the resize prompt loop (get_new_dimensions / check_width), the          *)
(* uniqueness trailer (make_it_unique), the size-ceiling loop              *)
(* (check_img_size / get_byte_size) and the POST with its error handling.  *)
(*                                                                         *)
(* A buffer (io.BytesIO or an open file) is a record                       *)
(*   len      total number of bytes held                                   *)
(*   pos      read cursor                                                  *)
(*   width, height, decodable   what PIL sees when it opens it             *)
(*   tail     0 when the bytes do not end with the random trailer,         *)
(*            t in Trailers when they end with the 16 bytes numbered t     *)
(* What the environment supplies (file contents, the words typed at the    *)
(* prompt, the encoder's output size, the server's answers) is drawn       *)
(* nondeterministically from small sets at the step that reads it.         *)
(* is_animated only picks resize_animations or resize_pics, which treat    *)
(* widths, the output buffer and its cursor alike: Encode stands for both.  *)
(* Encoder failures other than a zero height are not modelled.             *)
(***************************************************************************)
EXTENDS Integers, Sequences, FiniteSets, TLC

\* ---------------------------------------------------------------- bounds
\* command-line arguments per run
MaxItems == 2
\* widest image, in pixels
MaxWidth == 3

\* ------------------------------------------------------ program constants
Ceiling == 7600000
TrailerLen == 16
RetryTotal == 2

EXTENSIONS == {".bmp", ".gif", ".jpg", ".jpeg", ".png", ".webp"}
status_forcelist == {429, 500, 502, 503, 504}
allowed_methods == {"HEAD", "GET", "OPTIONS"}

\* ------------------------------------------------------------ environment
\* file names; heights: one short enough for a new height to round to 0,
\* one tall enough for an image to shrink to width 1 in two steps
Names == {1, 2}
Heights == {1, 4}
\* the image files a directory argument may hold
DirEntries == {1, 2}
Trailers == {1}
\* byte lengths of image files and of encoder outputs, around the ceiling
ImageSizes == {Ceiling - TrailerLen, Ceiling - TrailerLen + 1, Ceiling + 1}
\* --width: absent (<<>>) or an integer (<<w>>)
ResizeArgs == {<<>>} \cup {<<w>> : w \in -1..MaxWidth}
\* what input() yields at the prompt
PromptInputs == {[k |-> "eof", v |-> 0], [k |-> "text", v |-> 0]}
                  \cup {[k |-> "int", v |-> n] : n \in 0..MaxWidth}
\* command-line sources: kind is what sort_sources and is_dir make of one
\* ("url" a str, "file" and "dir" a Path); name is the path, part by part
CmdSources == {[kind |-> "file", name |-> <<n>>, ext |-> ".png"] : n \in Names}
                \cup {[kind |-> "file", name |-> <<1>>, ext |-> ".txt"]}
                \cup {[kind |-> "url", name |-> <<1>>, ext |-> ".png"]}
                \cup {[kind |-> "dir", name |-> <<1>>, ext |-> ""]}

NoBuf == [len |-> 0, pos |-> 0, width |-> 0, height |-> 0,
          decodable |-> FALSE, tail |-> 0]
NoResp == [status |-> 0, body |-> "none"]

\* what a file or a download can hold: an image PIL can open, or bytes it cannot
Images == [len : ImageSizes, pos : {0}, width : 1..MaxWidth, height : Heights,
           decodable : {TRUE}, tail : {0}]
            \cup [len : ImageSizes, pos : {0}, width : {0}, height : {0},
                  decodable : {FALSE}, tail : {0}]

\* final answers of the upload endpoint
ErrorBodies == {"err_obj", "no_error_field", "err_not_obj", "json_array", "not_json", "empty"}
ImageBodies == {"img_ok", "img_no_url", "img_no_id"}
Responses == [status : {200}, body : ImageBodies]
               \cup [status : {400}, body : ErrorBodies]
               \cup [status : {503}, body : {"err_obj"}]

VARIABLES sources, resize, pics, idx, pc, buf, ctx, new_width,
          width0, trailer, measured, warned, fits, attempts, response,
          payload, exc, out

vars == <<sources, resize, pics, idx, pc, buf, ctx, new_width,
          width0, trailer, measured, warned, fits, attempts, response,
          payload, exc, out>>

\* ------------------------------------------------------------ pure helpers
RECURSIVE LexLess(_, _)
\* PurePath / str comparison: lexicographic on the parts
LexLess(a, b) ==
  IF a = <<>> THEN b # <<>>
  ELSE IF b = <<>> THEN FALSE
  ELSE IF Head(a) < Head(b) THEN TRUE
  ELSE IF Head(b) < Head(a) THEN FALSE
  ELSE LexLess(Tail(a), Tail(b))

RECURSIVE Insert(_, _)
Insert(x, s) ==
  IF s = <<>> THEN <<x>>
  ELSE IF LexLess(x.name, Head(s).name) THEN <<x>> \o s
  ELSE <<Head(s)>> \o Insert(x, Tail(s))

RECURSIVE sorted(_)
\* list.sort() / sorted(): stable, ascending
sorted(s) ==
  IF s = <<>> THEN <<>>
  ELSE Insert(s[Len(s)], sorted(SubSeq(s, 1, Len(s) - 1)))

RECURSIVE Ascending(_)
Ascending(S) ==
  IF S = {} THEN <<>>
  ELSE LET m == CHOOSE x \in S : \A y \in S : x <= y
       IN <<m>> \o Ascending(S \ {m})

\* find_images: the image files under directory arg, sorted
find_images(arg, contents) ==
  LET cs == Ascending(contents)
  IN sorted([i \in 1..Len(cs) |->
               [kind |-> "file", name |-> arg.name \o <<cs[i]>>, ext |-> ".png"]])

RECURSIVE collect(_, _)
\* the for loop of organize_pics: directories expanded, other arguments kept
\* when their extension is an image extension
collect(filenames, fs) ==
  IF filenames = <<>> THEN <<>>
  ELSE LET arg == Head(filenames)
           rest == collect(Tail(filenames), fs)
       IN IF arg.kind = "dir" THEN find_images(arg, fs[arg.name]) \o rest
          ELSE IF arg.ext \in EXTENSIONS THEN <<arg>> \o rest
          ELSE rest

organize_pics_unsorted(filenames, fs) == collect(filenames, fs)

organize_pics(filenames, fs) == sorted(collect(filenames, fs))

\* pics.sort() compares a Path with a str as soon as the list holds both
sort_raises(filenames, fs) ==
  LET c == collect(filenames, fs)
  IN \E i, j \in 1..Len(c) : c[i].kind = "url" /\ c[j].kind # "url"

is_url(s) == s.kind = "url"

\* Python's round(n / d) for n >= 0, d > 0: ties go to the even integer
round(n, d) ==
  LET q == n \div d
      r == n % d
  IN IF 2 * r < d THEN q
     ELSE IF 2 * r > d THEN q + 1
     ELSE IF q % 2 = 0 THEN q ELSE q + 1

\* the loop condition of get_new_dimensions
needs_prompt_loose(nw, width) == nw < 1 \/ nw > width

needs_prompt(nw, width) == nw < 1 \/ nw >= width

\* check_width: the value it returns for one line typed at the prompt
check_width(nw, width, inp) == IF inp.k = "int" THEN inp.v ELSE nw

\* `if resize:` in upload_image
resize_requested(rz) == rz # <<>> /\ rz[1] # 0

\* resize_pics and resize_animations alike: the image resized to (w, h) is
\* saved into a fresh buffer, n bytes long, which holds nothing but the
\* encoder's output; then resize_output.seek(0)
encoded_unsought(n, w, h) ==
  [len |-> n, pos |-> n, width |-> w, height |-> h, decodable |-> TRUE, tail |-> 0]

encoded(n, w, h) ==
  [len |-> n, pos |-> 0, width |-> w, height |-> h, decodable |-> TRUE, tail |-> 0]

\* buffer.read(): the bytes from the cursor to the end
get_byte_size(b) == b.len - b.pos

read_all(b) == [b EXCEPT !.pos = b.len]

seek0(b) == [b EXCEPT !.pos = 0]

\* copyfileobj(input, output); output.write(randbytes(16)); output.seek(0)
make_it_unique(b, t) ==
  [b EXCEPT !.len = get_byte_size(b) + TrailerLen, !.pos = 0, !.tail = t]

\* urllib3 Retry.is_retry for the strategy create_retry mounts
is_retry(method, status) ==
  method \in allowed_methods /\ status \in status_forcelist

\* response.ok
ok(r) == r.status < 400

\* the except clause of main's loop
Caught == {"AttributeError", "HTTPError"}

\* ------------------------------------------------------------------ state
Init ==
  /\ sources \in UNION {[1..n -> CmdSources] : n \in 1..MaxItems}
  /\ Cardinality({i \in DOMAIN sources : sources[i].kind = "dir"}) <= 1
  /\ resize \in ResizeArgs
  /\ pics = <<>>
  /\ idx = 0
  /\ pc = "main"
  /\ buf = NoBuf
  /\ ctx = "none"
  /\ new_width = 0
  /\ width0 = 0
  /\ trailer = 0
  /\ measured = <<>>
  /\ warned = <<>>
  /\ fits = 0
  /\ attempts = 0
  /\ response = NoResp
  /\ payload = <<>>
  /\ exc = "none"
  /\ out = <<>>

\* the locals of upload_image and of its callees, gone when it returns or
\* an exception leaves it
Unwind ==
  /\ buf' = NoBuf
  /\ ctx' = "none"
  /\ new_width' = 0
  /\ width0' = 0
  /\ trailer' = 0
  /\ measured' = <<>>
  /\ warned' = <<>>
  /\ fits' = 0

\* an exception leaves upload_image: main's except clause takes it or the
\* process dies with it
Raise(e) ==
  /\ exc' = e
  /\ pc' = IF e \in Caught THEN "except" ELSE "aborted"
  /\ Unwind

\* the for loop of main moves to the next pic, or ends
Continue ==
  /\ idx' = idx + 1
  /\ pc' = IF idx + 1 > Len(pics) THEN "done" ELSE "fetch"
  /\ attempts' = 0
  /\ response' = NoResp
  /\ payload' = <<>>
  /\ exc' = "none"
  /\ UNCHANGED <<buf, ctx, new_width, width0, trailer, measured, warned, fits>>

\* main up to the loop: sort_sources, organize_pics, the empty-list exit
Main ==
  /\ pc = "main"
  /\ \E fs \in [{<<1>>} -> SUBSET DirEntries] :
       IF sort_raises(sources, fs)
       THEN /\ Raise("TypeError")
            /\ UNCHANGED <<pics, idx>>
       ELSE /\ pics' = organize_pics(sources, fs)
            /\ idx' = 1
            /\ pc' = IF pics' = <<>> THEN "exit1" ELSE "fetch"
            /\ UNCHANGED <<exc, buf, ctx, new_width, width0, trailer,
                           measured, warned, fits>>
  /\ UNCHANGED <<sources, resize, attempts, response, payload, out>>

\* upload_image: download_image or open(image_path, 'rb')
Fetch ==
  /\ pc = "fetch"
  /\ \/ /\ is_url(pics[idx])
        /\ \E e \in {"ConnectionError", "HTTPError"} : Raise(e)
     \/ /\ ~is_url(pics[idx])
        /\ Raise("FileNotFoundError")
     \/ /\ \E img \in Images : buf' = img
        /\ pc' = IF resize_requested(resize) THEN "resize" ELSE "unique"
        /\ UNCHANGED <<exc, ctx, new_width, width0, trailer, measured,
                       warned, fits>>
  /\ UNCHANGED <<sources, resize, pics, idx, attempts, response, payload, out>>

\* upload_image with a width: is_animated, then Image.open and the first
\* lines of get_new_dimensions
OpenForResize ==
  /\ pc = "resize"
  /\ IF ~buf.decodable
     THEN Raise("UnidentifiedImageError")
     ELSE /\ new_width' = resize[1]
          /\ ctx' = "resize"
          /\ pc' = "dims"
          /\ UNCHANGED <<exc, buf, width0, trailer, measured, warned, fits>>
  /\ UNCHANGED <<sources, resize, pics, idx, attempts, response, payload, out>>

\* one turn of the while loop of get_new_dimensions: check_width asks
Prompt ==
  /\ pc = "dims"
  /\ needs_prompt(new_width, buf.width)
  /\ \E inp \in PromptInputs :
       IF inp.k = "eof"
       THEN Raise("EOFError")
       ELSE /\ new_width' = check_width(new_width, buf.width, inp)
            /\ UNCHANGED <<pc, exc, buf, ctx, width0, trailer, measured,
                           warned, fits>>
  /\ UNCHANGED <<sources, resize, pics, idx, attempts, response, payload, out>>

\* get_new_dimensions returns; resize_pics / resize_animations resize, save
\* and return to upload_image or to check_img_size
Encode ==
  /\ pc = "dims"
  /\ ~needs_prompt(new_width, buf.width)
  /\ LET new_height == round(new_width * buf.height, buf.width)
     IN IF new_height < 1
        THEN Raise("ValueError")
        ELSE /\ \E n \in ImageSizes :
                  buf' = encoded(n, new_width, new_height)
             /\ fits' = IF ctx = "fit" THEN fits + 1 ELSE fits
             /\ pc' = IF ctx = "fit" THEN "size" ELSE "unique"
             /\ ctx' = "none"
             /\ new_width' = 0
             /\ measured' = <<>>
             /\ warned' = <<>>
             /\ UNCHANGED <<exc, width0, trailer>>
  /\ UNCHANGED <<sources, resize, pics, idx, attempts, response, payload, out>>

\* make_it_unique
Unique ==
  /\ pc = "unique"
  /\ \E t \in Trailers :
       /\ buf' = make_it_unique(buf, t)
       /\ trailer' = t
  /\ width0' = buf.width
  /\ pc' = "size"
  /\ UNCHANGED <<sources, resize, pics, idx, ctx, new_width, measured,
                 warned, fits, attempts, response, payload, exc, out>>

\* check_img_size: the loop test, and either the warning with the start of
\* the re-encode, or the final seek(0)
CheckSize ==
  /\ pc = "size"
  /\ LET n == get_byte_size(buf)
         b1 == read_all(buf)
     IN IF n > Ceiling
        THEN IF ~buf.decodable
             THEN Raise("UnidentifiedImageError")
             ELSE /\ measured' = <<n>>
                  /\ warned' = <<get_byte_size(b1)>>
                  /\ buf' = read_all(b1)
                  /\ new_width' = 0
                  /\ ctx' = "fit"
                  /\ pc' = "dims"
                  /\ UNCHANGED <<exc, width0, trailer, fits>>
        ELSE /\ buf' = seek0(b1)
             /\ pc' = "post"
             /\ UNCHANGED <<measured, warned, new_width, ctx, exc, width0,
                            trailer, fits>>
  /\ UNCHANGED <<sources, resize, pics, idx, attempts, response, payload, out>>

\* the message upload_image puts in error_dict for a JSON object or for text
message(body) ==
  CASE body = "err_obj" -> "error.message"
    [] body = "no_error_field" -> "No error field in JSON"
    [] body = "not_json" -> "response.text.strip()"
    [] body = "empty" -> "No error message"

\* upload_image after the POST has its final answer r: the error branch, or
\* the link and the id
handle(r) ==
  /\ response' = r
  /\ IF ~ok(r)
     THEN CASE r.body = "json_array" ->
                 Raise("AttributeError") /\ UNCHANGED payload
            [] r.body = "err_not_obj" ->
                 Raise("TypeError") /\ UNCHANGED payload
            [] OTHER ->
                 /\ payload' = <<[message |-> message(r.body),
                                  file |-> pics[idx].name]>>
                 /\ Raise("HTTPError")
     ELSE IF r.body = "img_ok"
          THEN pc' = "emit" /\ Unwind /\ UNCHANGED <<exc, payload>>
          ELSE Raise("KeyError") /\ UNCHANGED payload

\* http.post through the session of create_retry: one send; the adapter
\* sends again when the strategy says so, else upload_image goes on with
\* the answer
HttpPost ==
  /\ pc = "post"
  /\ \/ /\ Raise("ConnectionError")
        /\ UNCHANGED <<attempts, response, payload>>
     \/ \E r \in Responses :
          /\ attempts' = attempts + 1
          /\ IF is_retry("POST", r.status)
             THEN IF attempts' <= RetryTotal
                  THEN UNCHANGED <<pc, exc, response, payload, buf, ctx,
                                   new_width, width0, trailer, measured,
                                   warned, fits>>
                  ELSE Raise("RetryError") /\ UNCHANGED <<response, payload>>
             ELSE handle(r)
  /\ UNCHANGED <<sources, resize, pics, idx, out>>

\* main: format_links and the sinks (console, clipboard, text file)
Emit ==
  /\ pc = "emit"
  /\ out' = Append(out, pics[idx])
  /\ Continue
  /\ UNCHANGED <<sources, resize, pics>>

\* main: except (AttributeError, HTTPError): log and continue
Except ==
  /\ pc = "except"
  /\ Continue
  /\ UNCHANGED <<sources, resize, pics, out>>

Next ==
  \/ Main
  \/ Fetch
  \/ OpenForResize
  \/ Prompt
  \/ Encode
  \/ Unique
  \/ CheckSize
  \/ HttpPost
  \/ Emit
  \/ Except

Spec == Init /\ [][Next]_vars

\* ----------------------------------------------------------------- claims
RECURSIVE IsSubseq(_, _)
\* s can be had from t by dropping elements
IsSubseq(s, t) ==
  IF s = <<>> THEN TRUE
  ELSE IF t = <<>> THEN FALSE
  ELSE IF Head(s) = Head(t) THEN IsSubseq(Tail(s), Tail(t))
  ELSE IsSubseq(s, Tail(t))

IsAscending(s) ==
  \A i, j \in DOMAIN s : i < j => ~LexLess(s[j].name, s[i].name)

\* the exceptions by which the failures of one item that C4 lists leave
\* upload_image
ItemFailures == {"FileNotFoundError", "UnidentifiedImageError",
                 "ConnectionError", "HTTPError", "AttributeError", "KeyError"}

\* C1: the buffer handed to http.post is at most 7,600,000 bytes long with
\* its cursor at 0, and every measurement the loop test of check_img_size
\* takes starts at cursor 0, so it measures the whole buffer.
C1_PostedWithinCeiling ==
  /\ pc = "post" => (buf.len <= Ceiling /\ buf.pos = 0)
  /\ pc = "size" => buf.pos = 0

\* C1 witness: a buffer that check_img_size re-encoded twice is at the POST.
C1_Witness == pc = "post" /\ fits = 2 /\ buf.len <= Ceiling

\* C2: when the oversized image is 1 pixel wide, so that no width fits, the
\* fitting ends: a turn of the prompt loop does not leave the program in
\* the loop, asking again.
C2_FitEndsAtWidthOne ==
  [][(pc = "dims" /\ ctx = "fit" /\ buf.width = 1) => pc' # "dims"]_vars

\* C3: an upload error for an answer in {429, 500, 502, 503, 504} surfaces
\* only after the third send of the POST.
C3_RetryTransparent ==
  (pc \in {"except", "aborted"} /\ response.status \in status_forcelist)
    => attempts = RetryTotal + 1

\* C4: the batch never aborts because one item failed: no failure of an
\* item ends the process.
C4_ContinueOnError ==
  pc = "aborted" => exc \notin ItemFailures

\* C5: a requested width w with w < 1 or w >= W never gets past the resize
\* step: the item is neither passed on un-resized nor taken into the loop
\* that asks for another width.
C5_InvalidWidthRejected ==
  resize # <<>> =>
    /\ pc = "unique" => resize[1] >= 1
    /\ (pc = "dims" /\ ctx = "resize") => ~needs_prompt(resize[1], buf.width)

\* C6 (as amended): items are taken one at a time in the order of the list
\* organize_pics returns, the compatible sources sorted ascending; the
\* links emitted are in that ascending order, failed items left out.
C6_SortedOrder ==
  /\ [](/\ IsAscending(pics)
        /\ IsAscending(out)
        /\ IsSubseq(out, SubSeq(pics, 1, IF pc = "done" THEN Len(pics) ELSE idx)))
  /\ [][idx' # idx => /\ idx' = idx + 1
                      /\ pc \in {"main", "emit", "except"}]_vars

\* C6 witness: two links are out, for sources given in the other order.
C6_Witness ==
  /\ Len(out) = 2
  /\ Len(sources) = 2
  /\ out[1] = sources[2]
  /\ out[2] = sources[1]
  /\ out[1] # out[2]

\* C6 (as claimed): the links emitted are in the order in which their
\* sources were given on the command line.
C6_CommandLineOrder ==
  \A i, j \in DOMAIN out :
    (i < j /\ out[i] # out[j]) =>
      \A a, b \in DOMAIN sources :
        (sources[a] = out[i] /\ sources[b] = out[j]) => a < b

\* C7: every non-success final answer to the POST yields an error payload
\* with a message and the file name, and the item fails with the HTTP error
\* that main's loop catches.
C7_StructuredError ==
  (response # NoResp /\ ~ok(response)) =>
    /\ exc = "HTTPError"
    /\ pc # "aborted"
    /\ payload # <<>>
    /\ payload[1].file = pics[idx].name

\* C8: every re-encode uses a width w with 1 <= w < the width of the buffer
\* it re-encodes, whatever is typed at the prompt; inside check_img_size the
\* widths go strictly down, so it re-encodes at most (initial width - 1)
\* times.
C8_StrictlyShrinking ==
  /\ [][(pc = "dims" /\ pc' \in {"size", "unique"})
          => (1 <= buf'.width /\ buf'.width < buf.width)]_vars
  /\ []((pc \in {"size", "post"} \/ (pc = "dims" /\ ctx = "fit"))
          => (fits <= width0 - buf.width /\ (fits > 0 => fits <= width0 - 1)))

\* C8 witness: check_img_size has re-encoded twice, down to width 1.
C8_Witness == pc = "size" /\ fits = 2 /\ buf.width = 1 /\ width0 = 3

\* C9: the payload posted ends with the 16 bytes make_it_unique appended.
C9_TrailerPosted ==
  pc = "post" => (trailer # 0 /\ buf.tail = trailer)

\* C10: the warning of check_img_size states the size just compared with
\* the ceiling.
C10_WarningIsMeasured ==
  (pc = "dims" /\ ctx = "fit") => (warned = measured /\ warned[1] > Ceiling)

====
